---- MODULE Spec2Model ----
(***************************************************************************)
(* A model of ublock_chrome/cli.py: the four commands of the ublock-chrome *)
(* installer (install, update, uninstall, launch), the filesystem tree     *)
(* they rewrite, the browser process they stop and start, and the release  *)
(* resolution done by fetch_latest_release_url.                            *)
(*                                                                         *)
(* Strings the code inspects character by character (asset names) are      *)
(* sequences of one-character strings.  Local filesystem calls (rmtree,    *)
(* mkdir, copytree, write_text) are taken to succeed; the faults modelled  *)
(* are the ones the code raises itself and the ones of the network and of  *)
(* the downloaded archive.                                                 *)
(***************************************************************************)
EXTENDS Integers, Sequences, FiniteSets, TLC

VARIABLES
    platform,       \* sys.platform of the host
    chrome,         \* state of CHROME_APP_PATH: "absent", "noicon", "full"
    chromeRunning,  \* a process named "Google Chrome" exists
    fs,             \* the installation tree on disk
    last,           \* what the last command did and how it ended
    pc,             \* position of the running command: "idle" if none runs,
                    \* "done" when it has ended and its status is not yet read
    i,              \* loop counter of quit_chrome_if_running
    log,            \* subprocess calls made by the running launch command
    data,           \* response of the release-index endpoint last read
    res             \* what fetch_latest_release_url made of it

vars == <<platform, chrome, chromeRunning, fs, last, pc, i, log, data, res>>

(***************************************************************************)
(* Constants of the program                                                *)
(***************************************************************************)
INSTALL_DIR == "~/.ublock-chrome"
EXTENSION_DIR == "~/.ublock-chrome/extension"
APP_NAME == "Chrome (uBO).app"
CHROME_APP_PATH == "/Applications/Google Chrome.app"
MV2_FLAGS == "--disable-features=ExtensionManifestV2Unsupported,ExtensionManifestV2Disabled"
PollCount == 30

(***************************************************************************)
(* Bounds of the model                                                     *)
(***************************************************************************)
MaxAssets == 3

(***************************************************************************)
(* Characters and strings                                                  *)
(***************************************************************************)
ToLower ==
    ("A" :> "a") @@ ("B" :> "b") @@ ("C" :> "c") @@ ("H" :> "h") @@
    ("I" :> "i") @@ ("M" :> "m") @@ ("O" :> "o") @@ ("P" :> "p") @@
    ("R" :> "r") @@ ("U" :> "u") @@ ("Z" :> "z")

\* str.lower() on the alphabet of the asset names below
lower(s) == [k \in 1..Len(s) |-> IF s[k] \in DOMAIN ToLower THEN ToLower[s[k]] ELSE s[k]]

\* s.endswith(suffix)
endswith(s, suffix) ==
    /\ Len(suffix) <= Len(s)
    /\ SubSeq(s, Len(s) - Len(suffix) + 1, Len(s)) = suffix

\* needle in hay: a left-to-right scan for the first position that matches
RECURSIVE FindFrom(_, _, _)
FindFrom(hay, needle, k) ==
    IF k + Len(needle) - 1 > Len(hay) THEN FALSE
    ELSE IF SubSeq(hay, k, k + Len(needle) - 1) = needle THEN TRUE
    ELSE FindFrom(hay, needle, k + 1)

contains(hay, needle) == FindFrom(hay, needle, 1)

Marker == <<"c", "h", "r", "o", "m", "i", "u", "m">>
Suffix == <<".", "z", "i", "p">>

\* Asset names of a release: "uB.chromium.zip", "UB.CHROMIUM.zip",
\* "uB.Chromium.ZIP", "uB.chromium.zip.asc", "uB.chrome.zip", "uB.firefox.xpi"
AssetNames ==
    { <<"u", "B", ".">> \o Marker \o Suffix,
      <<"U", "B", ".", "C", "H", "R", "O", "M", "I", "U", "M">> \o Suffix,
      <<"u", "B", ".", "C", "h", "r", "o", "m", "i", "u", "m", ".", "Z", "I", "P">>,
      <<"u", "B", ".">> \o Marker \o Suffix \o <<".", "a", "s", "c">>,
      <<"u", "B", ".", "c", "h", "r", "o", "m", "e">> \o Suffix,
      <<"u", "B", ".", "f", "i", "r", "e", "f", "o", "x", ".", "x", "p", "i">> }

Tags == {"1.60.0", "1.61.0"}

\* The asset list a sequence of names stands for.  The download URL of the
\* asset at position k is k, so that two assets never share a URL.
AssetList(names) ==
    [k \in 1..Len(names) |-> [name |-> names[k], browser_download_url |-> k]]

NameLists == UNION { [1..n -> AssetNames] : n \in 0..MaxAssets }

\* Responses of the release-index endpoint: none (the request fails), or a
\* JSON object with or without a "tag_name" and with a list of assets.
NoResponse == [ok |-> FALSE, has_tag |-> FALSE, tag_name |-> "", assets |-> <<>>]

Responses ==
    {NoResponse} \cup
    { [ok |-> TRUE, has_tag |-> TRUE, tag_name |-> t, assets |-> AssetList(n)] :
        t \in Tags, n \in NameLists } \cup
    { [ok |-> TRUE, has_tag |-> FALSE, tag_name |-> "", assets |-> AssetList(n)] :
        n \in NameLists }

(***************************************************************************)
(* fetch_latest_release_url                                                *)
(***************************************************************************)
NoResult == [exc |-> "none", at |-> 0, url |-> 0, tag |-> "", msg_tag |-> ""]

\* Variant for C9: the marker is looked for in the name as it is written,
\* without lower().
is_chromium_zip_cased(name) == contains(name, Marker) /\ endswith(name, Suffix)

\* the predicate of line 102
is_chromium_zip(name) == contains(lower(name), Marker) /\ endswith(name, Suffix)

\* the for loop of lines 100-103: position of the asset returned, 0 if the
\* loop runs to its end
RECURSIVE FirstAsset(_, _)
FirstAsset(assets, k) ==
    IF k > Len(assets) THEN 0
    ELSE IF is_chromium_zip(assets[k].name) THEN k
    ELSE FirstAsset(assets, k + 1)

fetch_latest_release_url(resp) ==
    IF ~resp.ok
    THEN [NoResult EXCEPT !.exc = "URLError", !.at = 95]
    ELSE LET tag == IF resp.has_tag THEN resp.tag_name ELSE "unknown"
             k   == FirstAsset(resp.assets, 1)
         IN  IF k > 0
             THEN [NoResult EXCEPT !.url = resp.assets[k].browser_download_url,
                                   !.tag = tag]
             ELSE [NoResult EXCEPT !.exc = "RuntimeError", !.at = 105,
                                   !.msg_tag = tag]

(***************************************************************************)
(* The filesystem                                                          *)
(*                                                                         *)
(* A directory is [present, files].  The files of the extension directory  *)
(* are paths relative to it (sequences of names; a directory exists where  *)
(* a longer path passes through it); the files of a launcher bundle are    *)
(* [path, data] records.                                                   *)
(***************************************************************************)
NoDir == [present |-> FALSE, files |-> {}]
EmptyDir == [present |-> TRUE, files |-> {}]

\* shutil.rmtree(dir)
rmtree(dir) == NoDir

\* fs.install: INSTALL_DIR exists;  fs.ext: EXTENSION_DIR;
\* fs.app: INSTALL_DIR / APP_NAME;  fs.appsdir: ~/Applications exists;
\* fs.apps: ~/Applications / APP_NAME
NoInstallation ==
    [install |-> FALSE, ext |-> NoDir, app |-> NoDir, appsdir |-> FALSE, apps |-> NoDir]

Manifest == <<"manifest.json">>

\* Paths of the files a downloaded archive can hold: a payload at the top
\* level, a payload wrapped in the directory "w", and a file in "w" that
\* has the name of "w" itself.
ArchivePaths ==
    { <<"manifest.json">>, <<"a.js">>,
      <<"w", "manifest.json">>, <<"w", "a.js">>, <<"w", "w">> }

Archives == SUBSET ArchivePaths

\* EXTENSION_DIR.iterdir(), and is_dir() of one of its entries
iterdir(files) == { p[1] : p \in files }
is_dir(files, name) == \E p \in files : Len(p) > 1 /\ p[1] = name

Tail1(p) == SubSeq(p, 2, Len(p))

(***************************************************************************)
(* download_and_extract                                                    *)
(*                                                                         *)
(* dl is what the download brings: fetch ("ok" or "URLError"), zip ("ok"   *)
(* or "BadZipFile"), archive (the files of the archive), partial (the      *)
(* files unpacked before a bad archive is detected), first (the entries    *)
(* subdir.iterdir() yields before an entry that cannot be moved), and      *)
(* manifest_ok (the manifest parses as JSON).                              *)
(***************************************************************************)
\* Variant for C8: the directory is created if missing, and what is in it
\* is kept (mkdir(exist_ok=True) without the rmtree before it).
CleanPreviousInstall_kept(f) ==
    [f EXCEPT !.install = TRUE, !.ext = [present |-> TRUE, files |-> f.ext.files]]

\* lines 114-116: clean the previous install, recreate the directory
CleanPreviousInstall(f) ==
    LET e == IF f.ext.present THEN rmtree(f.ext) ELSE f.ext
    IN  [f EXCEPT !.install = TRUE, !.ext = [present |-> TRUE, files |-> e.files]]

\* zf.extractall(EXTENSION_DIR)
extractall(files, archive) == files \cup archive

\* lines 130-139.  shutil.move(item, EXTENSION_DIR / item.name) raises
\* shutil.Error when item.name is the name of subdir: the destination is
\* then the existing directory subdir, and the item is already in it.
Flatten(files, first) ==
    LET children == iterdir(files)
        subdir   == CHOOSE c \in children : TRUE
        items    == { p[2] : p \in files }
    IN  IF ~( /\ Cardinality(children) = 1
              /\ is_dir(files, subdir)
              /\ <<subdir, "manifest.json">> \in files )
        THEN [files |-> files, exc |-> "none"]
        ELSE IF subdir \in items
        THEN LET moved == first \cap (items \ {subdir})
             IN  [files |-> { IF p[2] \in moved THEN Tail1(p) ELSE p : p \in files },
                  exc   |-> "shutil.Error"]
        ELSE [files |-> { Tail1(p) : p \in files }, exc |-> "none"]

\* Variant for C2: a manifest anywhere in the tree passes the check.
manifest_missing_anywhere(files) == ~\E p \in files : p[Len(p)] = "manifest.json"

\* lines 141-142: not manifest_path.exists()
manifest_missing(files) == Manifest \notin files

download_and_extract(f, dl) ==
    LET cleaned == CleanPreviousInstall(f)
        put(files) == [cleaned EXCEPT !.ext.files = files]
    IN  IF dl.fetch # "ok"
        THEN [fs |-> cleaned, exc |-> "URLError", at |-> 122]
        ELSE IF dl.zip # "ok"
        THEN [fs |-> put(extractall(cleaned.ext.files, dl.partial)),
              exc |-> "BadZipFile", at |-> 123]
        ELSE LET flat == Flatten(extractall(cleaned.ext.files, dl.archive), dl.first)
             IN  IF flat.exc # "none"
                 THEN [fs |-> put(flat.files), exc |-> flat.exc, at |-> 138]
                 ELSE IF manifest_missing(flat.files)
                 THEN [fs |-> put(flat.files), exc |-> "RuntimeError", at |-> 143]
                 ELSE IF ~dl.manifest_ok
                 THEN [fs |-> put(flat.files), exc |-> "JSONDecodeError", at |-> 146]
                 ELSE [fs |-> put(flat.files), exc |-> "none", at |-> 0]

(***************************************************************************)
(* create_launcher_app, install_app_to_applications                        *)
(***************************************************************************)
LaunchScript ==
    [path |-> "Contents/MacOS/launch.sh",
     data |-> <<CHROME_APP_PATH, MV2_FLAGS, EXTENSION_DIR>>]
InfoPlist ==
    [path |-> "Contents/Info.plist", data |-> <<"com.ublock-chrome.launcher">>]
AppIcon ==
    [path |-> "Contents/Resources/AppIcon.icns", data |-> <<"app.icns">>]

\* chr is the state of CHROME_APP_PATH: the icon is copied if it is there
create_launcher_app(f, chr) ==
    LET old == IF f.app.present THEN rmtree(f.app) ELSE f.app
        new == {LaunchScript, InfoPlist} \cup (IF chr = "full" THEN {AppIcon} ELSE {})
    IN  [f EXCEPT !.install = TRUE,
                  !.app = [present |-> TRUE, files |-> old.files \cup new]]

\* shutil.copytree(app_dir, dest)
copytree(src, dst) == [present |-> TRUE, files |-> dst.files \cup src.files]

\* Variant for C3: the bundle is copied over the one that is there
\* (copytree(dirs_exist_ok=True) without the rmtree before it).
install_app_to_applications_over(f) ==
    [f EXCEPT !.appsdir = TRUE, !.apps = copytree(f.app, f.apps)]

install_app_to_applications(f) ==
    LET old == IF f.apps.present THEN rmtree(f.apps) ELSE f.apps
    IN  [f EXCEPT !.appsdir = TRUE, !.apps = copytree(f.app, old)]

(***************************************************************************)
(* Preflight checks and the end of the process                             *)
(***************************************************************************)
\* "none", or the SystemExit of sys.exit(1)
_check_macos(plat) == IF plat # "darwin" THEN "SystemExit" ELSE "none"

\* Variant for C6: the check of the browser is left out.
_check_chrome_skipped(chr) == "none"

_check_chrome(chr) == IF chr = "absent" THEN "SystemExit" ELSE "none"

\* Variant for C1: main() catches RuntimeError, prints its message on
\* stderr and exits with 1.
Stderr_caught(exc) == IF exc = "none" THEN "none" ELSE "message"

\* How the interpreter ends main(): a return exits with 0; sys.exit(1) exits
\* with 1 after the message the code printed on stderr; any other exception
\* is not caught anywhere, so the interpreter prints its traceback on stderr
\* and exits with 1.
ExitStatus(exc) == IF exc = "none" THEN 0 ELSE 1
Stderr(exc) ==
    IF exc = "none" THEN "none"
    ELSE IF exc = "SystemExit" THEN "message"
    ELSE "traceback"

(***************************************************************************)
(* The commands that only touch the filesystem                             *)
(*                                                                         *)
(* A command yields the tree it leaves, the exception that ended it        *)
(* ("none" on a return) with the line that raised it, the number of        *)
(* network requests it made, what it resolved, and its per-target reports. *)
(***************************************************************************)
Ended(f, exc, at, net, r, reports) ==
    [fs |-> f, exc |-> exc, at |-> at, net |-> net, res |-> r, reports |-> reports]

cmd_install(plat, chr, f, resp, dl) ==
    IF _check_macos(plat) # "none" THEN Ended(f, "SystemExit", 71, 0, NoResult, <<>>)
    ELSE IF _check_chrome(chr) # "none" THEN Ended(f, "SystemExit", 81, 0, NoResult, <<>>)
    ELSE LET r == fetch_latest_release_url(resp)
         IN  IF r.exc # "none" THEN Ended(f, r.exc, r.at, 1, r, <<>>)
             ELSE LET d == download_and_extract(f, dl)
                  IN  IF d.exc # "none" THEN Ended(d.fs, d.exc, d.at, 2, r, <<>>)
                      ELSE Ended(install_app_to_applications(create_launcher_app(d.fs, chr)),
                                 "none", 0, 2, r, <<>>)

cmd_update(plat, chr, f, resp, dl) ==
    IF _check_macos(plat) # "none" THEN Ended(f, "SystemExit", 71, 0, NoResult, <<>>)
    ELSE IF _check_chrome(chr) # "none" THEN Ended(f, "SystemExit", 81, 0, NoResult, <<>>)
    ELSE LET r == fetch_latest_release_url(resp)
         IN  IF r.exc # "none" THEN Ended(f, r.exc, r.at, 1, r, <<>>)
             ELSE LET d == download_and_extract(f, dl)
                  IN  IF d.exc # "none" THEN Ended(d.fs, d.exc, d.at, 2, r, <<>>)
                      ELSE Ended(install_app_to_applications(create_launcher_app(d.fs, chr)),
                                 "none", 0, 2, r, <<>>)

\* Variant for C7: rmtree is called on each target without p.exists(), and
\* raises FileNotFoundError on the first one that is not there.
cmd_uninstall_unguarded(plat, f) ==
    IF _check_macos(plat) # "none" THEN Ended(f, "SystemExit", 71, 0, NoResult, <<>>)
    ELSE IF ~f.install THEN Ended(f, "FileNotFoundError", 390, 0, NoResult, <<>>)
    ELSE LET f1 == [f EXCEPT !.install = FALSE, !.ext = rmtree(f.ext),
                             !.app = rmtree(f.app)]
         IN  IF ~f1.apps.present
             THEN Ended(f1, "FileNotFoundError", 390, 0, NoResult, <<"Removed">>)
             ELSE Ended([f1 EXCEPT !.apps = rmtree(f1.apps)], "none", 0, 0, NoResult,
                        <<"Removed", "Removed">>)

\* the loop of lines 388-393 over INSTALL_DIR and ~/Applications/APP_NAME
cmd_uninstall(plat, f) ==
    IF _check_macos(plat) # "none" THEN Ended(f, "SystemExit", 71, 0, NoResult, <<>>)
    ELSE LET f1 == IF f.install
                   THEN [f EXCEPT !.install = FALSE, !.ext = rmtree(f.ext),
                                  !.app = rmtree(f.app)]
                   ELSE f
             f2 == IF f1.apps.present THEN [f1 EXCEPT !.apps = rmtree(f1.apps)] ELSE f1
         IN  Ended(f2, "none", 0, 0, NoResult,
                   << IF f.install THEN "Removed" ELSE "not found",
                      IF f1.apps.present THEN "Removed" ELSE "not found" >>)

\* Variant for C5: only the existence of the directory is checked.
NotInstalled_dir_only(f) == ~f.ext.present

\* the check of line 404
NotInstalled(f) == ~f.ext.present \/ Manifest \notin f.ext.files

(***************************************************************************)
(* State                                                                   *)
(***************************************************************************)
\* What is kept of a command: its name, how it ended (exit is -1 while it
\* runs), the archive it installed, and whether it removed a file that
\* was in the extension directory, or in a bundle, before it.
Record(cmd, e, archive, f) ==
    [cmd |-> cmd, exc |-> e.exc, at |-> e.at,
     exit |-> ExitStatus(e.exc), stderr |-> Stderr(e.exc),
     net |-> e.net, reports |-> e.reports, archive |-> archive,
     dropped_ext |-> f.ext.files \ e.fs.ext.files # {},
     dropped_app |-> (f.app.files \ e.fs.app.files # {})
                     \/ (f.apps.files \ e.fs.apps.files # {})]

NoCommand ==
    [cmd |-> "none", exc |-> "none", at |-> 0, exit |-> 0, stderr |-> "none",
     net |-> 0, reports |-> <<>>, archive |-> {},
     dropped_ext |-> FALSE, dropped_app |-> FALSE]

\* The downloads tried: a request that fails, a bad archive of which no
\* file or one file was unpacked, every archive, every archive whose
\* manifest is found but does not parse, and every order of iteration
\* over a directory that holds an entry that cannot be moved.
Download(fetch, zip, archive, partial, first, ok) ==
    [fetch |-> fetch, zip |-> zip, archive |-> archive, partial |-> partial,
     first |-> first, manifest_ok |-> ok]

NoDownload == Download("URLError", "ok", {}, {}, {}, TRUE)

Downloads ==
    { NoDownload } \cup
    { Download("ok", "BadZipFile", a, a, {}, TRUE) :
        a \in { b \in Archives : Cardinality(b) <= 1 } } \cup
    { Download("ok", "ok", a, {}, {}, TRUE) : a \in Archives } \cup
    { Download("ok", "ok", a, {}, {}, FALSE) :
        a \in { b \in Archives : Manifest \in Flatten(b, {}).files } } \cup
    { Download("ok", "ok", a, {}, first, TRUE) :
        a \in { b \in Archives : Flatten(b, {}).exc # "none" },
        first \in (SUBSET {"manifest.json", "a.js"}) \ {{}} }

\* The responses of the release index tried by install and update: no
\* response, a release without a matching asset, a release with one.
OkResponse ==
    [ok |-> TRUE, has_tag |-> TRUE, tag_name |-> "1.60.0",
     assets |-> AssetList(
        << <<"u", "B", ".", "f", "i", "r", "e", "f", "o", "x", ".", "x", "p", "i">>,
           <<"u", "B", ".">> \o Marker \o Suffix >>)]

EmptyResponse ==
    [ok |-> TRUE, has_tag |-> TRUE, tag_name |-> "1.60.0", assets |-> <<>>]

\* What install and update meet on the network: a response of the release
\* index and, when a download follows it, the download.
Inputs ==
    { [resp |-> r, dl |-> NoDownload] : r \in {NoResponse, EmptyResponse} } \cup
    { [resp |-> OkResponse, dl |-> d] : d \in Downloads }

Init ==
    /\ platform \in {"darwin", "linux"}
    /\ chrome \in {"absent", "noicon", "full"}
    /\ chromeRunning \in BOOLEAN
    /\ fs = NoInstallation
    /\ last = NoCommand
    /\ pc = "idle"
    /\ i = 0
    /\ log = <<>>
    /\ data = NoResponse
    /\ res = NoResult

(***************************************************************************)
(* install, update, uninstall                                              *)
(***************************************************************************)
Install ==
    /\ pc = "idle"
    /\ \E in \in Inputs :
         \E e \in {cmd_install(platform, chrome, fs, in.resp, in.dl)} :
             /\ fs' = e.fs
             /\ last' = Record("install", e, IF e.exc = "none" THEN in.dl.archive ELSE {}, fs)
             /\ data' = IF e.net > 0 THEN in.resp ELSE NoResponse
             /\ res' = e.res
    /\ pc' = "done"
    /\ UNCHANGED <<platform, chrome, chromeRunning, i, log>>

Update ==
    /\ pc = "idle"
    /\ \E in \in Inputs :
         \E e \in {cmd_update(platform, chrome, fs, in.resp, in.dl)} :
             /\ fs' = e.fs
             /\ last' = Record("update", e, IF e.exc = "none" THEN in.dl.archive ELSE {}, fs)
             /\ data' = IF e.net > 0 THEN in.resp ELSE NoResponse
             /\ res' = e.res
    /\ pc' = "done"
    /\ UNCHANGED <<platform, chrome, chromeRunning, i, log>>

Uninstall ==
    /\ pc = "idle"
    /\ \E e \in {cmd_uninstall(platform, fs)} :
         /\ fs' = e.fs
         /\ last' = Record("uninstall", e, {}, fs)
    /\ pc' = "done"
    /\ UNCHANGED <<platform, chrome, chromeRunning, i, log, data, res>>

(***************************************************************************)
(* launch: cmd_launch, quit_chrome_if_running, launch_chrome_with_ubo      *)
(*                                                                         *)
(* The command runs beside the browser, which can exit at any moment, so   *)
(* it is modelled one subprocess call (or one sleep) at a time.            *)
(***************************************************************************)
Call(op, rc, argv) == [op |-> op, rc |-> rc, argv |-> argv]

\* pgrep -x "Google Chrome": return code 0 if a process matches, 1 if none
pgrep(running) == Call("pgrep", IF running THEN 0 ELSE 1, <<"pgrep", "-x", "Google Chrome">>)

OpenArgv ==
    <<"open", "-a", CHROME_APP_PATH, "--args", MV2_FLAGS,
      "--load-extension=~/.ublock-chrome/extension">>

\* open -a APP --args ARGS...: the arguments handed to the application are
\* the ones that follow --args
RECURSIVE AfterArgs(_)
AfterArgs(argv) ==
    IF argv = <<>> THEN <<>>
    ELSE IF Head(argv) = "--args" THEN Tail(argv)
    ELSE AfterArgs(Tail(argv))

Running == [NoCommand EXCEPT !.cmd = "launch", !.exit = -1]

\* lines 401-410: the preflight checks of cmd_launch
launch_preflight(plat, chr, f) ==
    IF _check_macos(plat) # "none" THEN Ended(f, "SystemExit", 71, 0, NoResult, <<>>)
    ELSE IF _check_chrome(chr) # "none" THEN Ended(f, "SystemExit", 81, 0, NoResult, <<>>)
    ELSE IF NotInstalled(f) THEN Ended(f, "SystemExit", 410, 0, NoResult, <<>>)
    ELSE Ended(f, "none", 0, 0, NoResult, <<>>)

Launch ==
    /\ pc = "idle"
    /\ \E e \in {launch_preflight(platform, chrome, fs)} :
         /\ fs' = e.fs
         /\ IF e.exc # "none"
            THEN last' = Record("launch", e, {}, fs) /\ pc' = "done"
            ELSE last' = Running /\ pc' = "quit_check"
    /\ UNCHANGED <<platform, chrome, chromeRunning, i, log, data, res>>

\* Variant for C10: the return code of the first pgrep is not looked at.
QuitCheck_unconditional ==
    /\ pc = "quit_check"
    /\ log' = Append(log, pgrep(chromeRunning))
    /\ pc' = "quit"
    /\ UNCHANGED <<platform, chrome, chromeRunning, fs, last, i, data, res>>

\* lines 256-261
QuitCheck ==
    /\ pc = "quit_check"
    /\ log' = Append(log, pgrep(chromeRunning))
    /\ pc' = IF pgrep(chromeRunning).rc # 0 THEN "launch" ELSE "quit"
    /\ UNCHANGED <<platform, chrome, chromeRunning, fs, last, i, data, res>>

\* lines 263-267
QuitRequest ==
    /\ pc = "quit"
    /\ log' = Append(log, Call("osascript", 0,
                 <<"osascript", "-e", "tell application \"Google Chrome\" to quit">>))
    /\ pc' = "poll"
    /\ i' = 0
    /\ UNCHANGED <<platform, chrome, chromeRunning, fs, last, data, res>>

\* lines 272-275: one pass of the loop up to its break
Poll ==
    /\ pc = "poll"
    /\ log' = Append(log, pgrep(chromeRunning))
    /\ pc' = IF pgrep(chromeRunning).rc # 0 THEN "launch" ELSE "sleep"
    /\ UNCHANGED <<platform, chrome, chromeRunning, fs, last, i, data, res>>

\* line 276 and the end of range(30): the else clause runs when the loop
\* ends without a break
Sleep ==
    /\ pc = "sleep"
    /\ i' = i + 1
    /\ pc' = IF i + 1 < PollCount THEN "poll" ELSE "pkill"
    /\ UNCHANGED <<platform, chrome, chromeRunning, fs, last, log, data, res>>

\* lines 278-279
Pkill ==
    /\ pc = "pkill"
    /\ log' = Append(log, Call("pkill", 0, <<"pkill", "-9", "-x", "Google Chrome">>))
    /\ chromeRunning' = FALSE
    /\ pc' = "launch"
    /\ UNCHANGED <<platform, chrome, fs, last, i, data, res>>

\* lines 284-298 and 414-416
LaunchBrowser ==
    /\ pc = "launch"
    /\ log' = Append(log, Call("open", 0, OpenArgv))
    /\ chromeRunning' = TRUE
    /\ last' = [Running EXCEPT !.exit = 0]
    /\ pc' = "done"
    /\ UNCHANGED <<platform, chrome, fs, i, data, res>>

\* The process of the command has ended and its exit status and streams
\* were read: nothing of it remains but the filesystem it left.
Exit ==
    /\ pc = "done"
    /\ pc' = "idle"
    /\ last' = NoCommand
    /\ i' = 0
    /\ log' = <<>>
    /\ data' = NoResponse
    /\ res' = NoResult
    /\ UNCHANGED <<platform, chrome, chromeRunning, fs>>

(***************************************************************************)
(* The environment                                                         *)
(***************************************************************************)
\* The browser exits: asked to, or closed by its user.
BrowserExits ==
    /\ chromeRunning
    /\ chromeRunning' = FALSE
    /\ UNCHANGED <<platform, chrome, fs, last, pc, i, log, data, res>>

\* The user starts the browser (between commands).
BrowserStarts ==
    /\ pc = "idle"
    /\ chrome # "absent"
    /\ ~chromeRunning
    /\ chromeRunning' = TRUE
    /\ UNCHANGED <<platform, chrome, fs, last, pc, i, log, data, res>>

\* The browser is installed, removed, or replaced by a build with or
\* without Contents/Resources/app.icns (between commands).
ChromeAppChanges ==
    /\ pc = "idle"
    /\ chrome' \in {"absent", "noicon", "full"} \ {chrome}
    /\ chromeRunning' = (chromeRunning /\ chrome' # "absent")
    /\ UNCHANGED <<platform, fs, last, pc, i, log, data, res>>

Next ==
    \/ Install
    \/ Update
    \/ Uninstall
    \/ Launch
    \/ QuitCheck
    \/ QuitRequest
    \/ Poll
    \/ Sleep
    \/ Pkill
    \/ LaunchBrowser
    \/ Exit
    \/ BrowserExits
    \/ BrowserStarts
    \/ ChromeAppChanges

Spec == Init /\ [][Next]_vars

(***************************************************************************)
(* fetch_latest_release_url on every response within the bounds            *)
(***************************************************************************)
InitResolve ==
    /\ platform = "darwin"
    /\ chrome = "full"
    /\ chromeRunning = FALSE
    /\ fs = NoInstallation
    /\ last = NoCommand
    /\ pc = "call"
    /\ i = 0
    /\ log = <<>>
    /\ data \in Responses
    /\ res = NoResult

Resolve ==
    /\ pc = "call"
    /\ res' = fetch_latest_release_url(data)
    /\ pc' = "return"
    /\ UNCHANGED <<platform, chrome, chromeRunning, fs, last, i, log, data>>

NextResolve == Resolve

SpecResolve == InitResolve /\ [][NextResolve]_vars

(***************************************************************************)
(* Properties                                                              *)
(***************************************************************************)
Ended_(cmds) == pc = "done" /\ last.cmd \in cmds
Starts(cmds) == pc = "idle" /\ last'.cmd \in cmds

HasManifest(f) == f.ext.present /\ Manifest \in f.ext.files

\* C1, as stated: an install or update that ends on the RuntimeError of a
\* release without a matching asset, or of an archive without a manifest,
\* exits with a non-zero status after a short message on stderr, not with
\* the traceback of an unhandled exception.
C1_CaughtAtBoundary ==
    (Ended_({"install", "update"}) /\ last.exc = "RuntimeError")
        => (last.exit # 0 /\ last.stderr = "message")

\* C1, amended: an install or update that ends on either RuntimeError exits
\* with status 1 and the traceback of an unhandled exception on stderr; the
\* short message followed by exit status 1 is what the preflight failures
\* (sys.exit) produce.
C1_UnhandledFault ==
    /\ (Ended_({"install", "update"}) /\ last.exc = "RuntimeError")
           => (last.at \in {105, 143} /\ last.exit = 1 /\ last.stderr = "traceback")
    /\ (Ended_({"install", "update"}) /\ last.exc = "SystemExit")
           => (last.at \in {71, 81} /\ last.exit = 1 /\ last.stderr = "message")

\* an update whose archive has no manifest at its root after normalization
C1_Witness ==
    /\ Ended_({"update"})
    /\ last.exc = "RuntimeError"
    /\ last.at = 143
    /\ fs.ext.present
    /\ fs.ext.files # {}

\* C2, as stated: whatever commands ran, and however they ended, the
\* extension directory is absent or has a manifest at its root.
C2_AbsentOrManifest == fs.ext.present => Manifest \in fs.ext.files

\* C2, amended: the extension directory is absent or has a manifest at its
\* root after every command that completes (exit status 0), and it stays so
\* until an install or update fails after it has started its download (a
\* failed download, a bad archive, an entry that cannot be moved, a missing
\* manifest): such a command leaves the directory present without a
\* manifest, or with what was unpacked.  A command that fails earlier, an
\* uninstall and a launch never break it.
C2_BrokenOnlyByFailedDownload ==
    /\ [](Ended_({"install", "update", "uninstall", "launch"}) /\ last.exit = 0
            => C2_AbsentOrManifest)
    /\ [][ (C2_AbsentOrManifest /\ ~C2_AbsentOrManifest')
            => /\ last'.cmd \in {"install", "update"}
               /\ last'.exit = 1
               /\ last'.net = 2
               /\ last'.exc \in {"URLError", "BadZipFile", "shutil.Error", "RuntimeError"}
               /\ last'.at \in {122, 123, 138, 143} ]_vars

\* an update whose download fails has removed the extension installed
\* before it and left an empty directory
C2_Witness ==
    /\ Ended_({"update"})
    /\ last.exc = "URLError"
    /\ last.at = 122
    /\ last.dropped_ext
    /\ fs.ext = EmptyDir

\* C3: the bundle in ~/Applications and the bundle in INSTALL_DIR are both
\* absent, or both present with the same files of the same contents, in
\* every state reached by install, update, uninstall and launch commands,
\* failed ones included.
C3_BundlesIdentical ==
    /\ fs.app.present = fs.apps.present
    /\ fs.app.files = fs.apps.files

\* an update on a host whose browser has lost its icon has rebuilt both
\* bundles without the icon the previous ones had
C3_Witness ==
    /\ Ended_({"update"})
    /\ last.exit = 0
    /\ last.dropped_app
    /\ fs.apps.present
    /\ AppIcon \notin fs.apps.files

\* C4, as stated: the loop of quit_chrome_if_running goes on to the forced
\* termination at its deadline (the end of the 30th interval) only if the
\* browser has not exited within the window.
C4_NoKillAfterExitInWindow ==
    [][ (pc = "sleep" /\ pc' = "pkill") => chromeRunning ]_vars

\* C5: a launch on macOS with the browser installed, but with the extension
\* directory absent or without a manifest, exits with status 1 after its
\* message, makes no subprocess call (no pgrep, osascript, pkill or open),
\* and leaves the filesystem and the browser as they were.
C5_LaunchBeforeInstall ==
    [][ ( /\ Starts({"launch"})
          /\ platform = "darwin"
          /\ chrome # "absent"
          /\ ~HasManifest(fs) )
        => ( /\ pc' = "done"
             /\ last'.exit = 1
             /\ last'.stderr = "message"
             /\ log' = <<>>
             /\ fs' = fs
             /\ chromeRunning' = chromeRunning ) ]_vars

\* a launch refused over an extension directory that is there, but has no
\* manifest
C5_Witness ==
    /\ Ended_({"launch"})
    /\ last.at = 410
    /\ platform = "darwin"
    /\ chrome # "absent"
    /\ fs.ext.present
    /\ log = <<>>

\* C6: an install or update on another OS than macOS, or without the
\* browser, exits with a non-zero status, makes no network request and
\* leaves the extension directory and both bundles as they were.
C6_PreflightNoSideEffect ==
    [][ ( /\ Starts({"install", "update"})
          /\ (platform # "darwin" \/ chrome = "absent") )
        => ( /\ pc' = "done"
             /\ last'.exit # 0
             /\ last'.net = 0
             /\ data' = data
             /\ fs' = fs ) ]_vars

\* an update refused because the browser is gone, over a full installation
C6_Witness ==
    /\ Ended_({"update"})
    /\ last.exc = "SystemExit"
    /\ last.at = 81
    /\ last.net = 0
    /\ HasManifest(fs)
    /\ fs.apps.present

\* C7: an uninstall on macOS completes with exit status 0 from any state,
\* leaves INSTALL_DIR (with the extension directory and the bundle in it)
\* and the bundle in ~/Applications absent, and reports each of the two
\* targets as removed if it was there and as not found if it was not.
C7_UninstallAlwaysSucceeds ==
    [][ ( /\ Starts({"uninstall"})
          /\ platform = "darwin" )
        => ( /\ pc' = "done"
             /\ last'.exit = 0
             /\ ~fs'.install /\ ~fs'.ext.present /\ ~fs'.app.present
             /\ ~fs'.apps.present
             /\ last'.reports =
                  << IF fs.install THEN "Removed" ELSE "not found",
                     IF fs.apps.present THEN "Removed" ELSE "not found" >> ) ]_vars

\* an uninstall after an install that failed before it built the bundles:
\* only one of the two targets was there
C7_Witness ==
    /\ Ended_({"uninstall"})
    /\ last.exit = 0
    /\ last.reports = <<"Removed", "not found">>
    /\ fs = [NoInstallation EXCEPT !.appsdir = fs.appsdir]

\* The content C8 expects of an archive: its files, without the directory
\* that wraps them all if there is one.
Wrapped(a) == a # {} /\ \E d \in { q[1] : q \in a } : \A p \in a : Len(p) >= 2 /\ p[1] = d
Unwrapped(a) == IF Wrapped(a) THEN { SubSeq(p, 2, Len(p)) : p \in a } ELSE a

\* The artifacts C8 expects in a bundle: the script, the descriptor, and the
\* icon if the browser has one.
FreshBundle(chr) ==
    { f \in {LaunchScript, InfoPlist, AppIcon} : f = AppIcon => chr = "full" }

\* C8: after an install or update that completes, the extension directory
\* holds exactly the files of the archive just downloaded (unwrapped), and
\* each bundle exactly the artifacts just generated: nothing that was there
\* before the command is left.
C8_FullReplace ==
    (Ended_({"install", "update"}) /\ last.exit = 0)
        => /\ fs.ext.present
           /\ fs.ext.files = Unwrapped(last.archive)
           /\ fs.app.present
           /\ fs.app.files = FreshBundle(chrome)
           /\ fs.apps.present
           /\ fs.apps.files = FreshBundle(chrome)

\* an update that has removed a file of the extension and a file of the
\* bundles that were there before it
C8_Witness ==
    /\ Ended_({"update"})
    /\ last.exit = 0
    /\ last.dropped_ext
    /\ last.dropped_app

\* The selection predicate in the words of C9: some stretch of the name is
\* the marker, letter by letter whatever the case, and the name ends with
\* the suffix as it is written.
UpperOf ==
    ("c" :> "C") @@ ("h" :> "H") @@ ("r" :> "R") @@ ("o" :> "O") @@
    ("m" :> "M") @@ ("i" :> "I") @@ ("u" :> "U")

Matching(name) ==
    /\ \E j \in 0..(Len(name) - Len(Marker)) :
         \A t \in 1..Len(Marker) : name[j + t] \in {Marker[t], UpperOf[Marker[t]]}
    /\ \E j \in 0..Len(name) :
         /\ j + Len(Suffix) = Len(name)
         /\ \A t \in 1..Len(Suffix) : name[j + t] = Suffix[t]

\* C9: for a release with a tag and an ordered list of assets, if some asset
\* name matches, fetch_latest_release_url returns the URL of the first one
\* that does, with the tag; if none does, it raises an error whose message
\* embeds the tag.
C9_FirstMatchingAsset ==
    (pc = "return" /\ data.ok)
        => LET hits == { k \in 1..Len(data.assets) : Matching(data.assets[k].name) }
           IN  IF hits # {}
               THEN /\ res.exc = "none"
                    /\ \E k \in hits :
                         /\ \A h \in hits : k <= h
                         /\ res.url = data.assets[k].browser_download_url
                    /\ data.has_tag => res.tag = data.tag_name
               ELSE /\ res.exc = "RuntimeError"
                    /\ data.has_tag => res.msg_tag = data.tag_name

\* a release whose first asset does not match, whose second and third do,
\* the second being written in capitals
C9_Witness ==
    /\ pc = "return"
    /\ data.has_tag
    /\ Len(data.assets) = 3
    /\ ~Matching(data.assets[1].name)
    /\ Matching(data.assets[2].name)
    /\ data.assets[2].name[4] = "C"
    /\ Matching(data.assets[3].name)
    /\ res.url = 2

\* C10: in a launch that passes its checks, the first subprocess call is a
\* presence check, and no quit request and no forced termination follow it
\* if it reports the browser not running; the browser is started at most
\* once, as the last call, right after a presence check that reported it
\* not running or a forced termination, with exactly the feature-flag
\* string and the load-extension reference as its arguments; it has been
\* started when the command ends; and no step of the command changes the
\* installation tree.
C10_LaunchSequence ==
    /\ [] ( last.cmd = "launch" /\ last.exc = "none"
            => /\ log # <<>> => log[1].op = "pgrep"
               /\ (log # <<>> /\ log[1].rc # 0)
                    => \A k \in 1..Len(log) : log[k].op \notin {"osascript", "pkill"}
               /\ \A k \in 1..Len(log) :
                    log[k].op = "open"
                      => /\ k = Len(log)
                         /\ k > 1
                         /\ \/ log[k - 1].op = "pgrep" /\ log[k - 1].rc # 0
                            \/ log[k - 1].op = "pkill"
                         /\ AfterArgs(log[k].argv)
                              = <<MV2_FLAGS, "--load-extension=~/.ublock-chrome/extension">>
               /\ pc = "done"
                    => /\ last.exit = 0
                       /\ Cardinality({ k \in 1..Len(log) : log[k].op = "open" }) = 1 )
    /\ [][ last'.cmd = "launch" => fs' = fs ]_vars

\* a launch that has started the browser after the forced termination of
\* one that never exited
C10_Witness ==
    /\ Ended_({"launch"})
    /\ last.exit = 0
    /\ Len(log) = PollCount + 4
    /\ log[1].rc = 0
    /\ log[PollCount + 3].op = "pkill"
    /\ log[PollCount + 4].op = "open"
    /\ HasManifest(fs)

====
